---- MODULE Spec2Model ----
(***************************************************************************)
(* Model of the lab84 Mandelbrot renderer (state.rs) driven by the winit   *)
(* event loop (main.rs).                                                   *)
(*                                                                         *)
(*  - Spec        the engine: State::new, resize, trigger_render, render   *)
(*                and the event loop's handlers.                           *)
(*  - SpecPixel   the per-pixel iteration loop of compute_cpu_preview,     *)
(*                one loop iteration per step.                             *)
(*  - SpecPreview compute_cpu_preview's parallel row workers, one pixel    *)
(*                per step, every interleaving.                            *)
(*                                                                         *)
(* f32 values are modelled as exact rationals <<num, den>> (den > 0); the  *)
(* inputs of SpecPixel and SpecPreview are chosen so that every f32        *)
(* operation of the iteration loop is exact (small integers).              *)
(***************************************************************************)
EXTENDS Integers, Sequences, FiniteSets, TLC

VARIABLES
    state,              \* the State struct (state.rs:20-42), queue included
    control_flow,       \* winit's *control_flow: "Poll" or "Exit"
    redraw_requested,   \* window.request_redraw() pending
    last_event,         \* the event the loop handled last, with its outcome
    renders_since_trigger, \* successful render() calls since new / accepted resize (saturating)
    pixel,              \* SpecPixel: the locals of one pixel of compute_cpu_preview
    preview             \* SpecPreview: the buffer and the row workers

vars == <<state, control_flow, redraw_requested, last_event,
          renders_since_trigger, pixel, preview>>

(***************************************************************************)
(* Program constants                                                       *)
(***************************************************************************)
LOW_RES_WIDTH == 320
LOW_RES_HEIGHT == 180
MAX_ITERATIONS == 1000
PREVIEW_ITERATIONS == 300

(***************************************************************************)
(* Bounds                                                                  *)
(***************************************************************************)
\* window widths and heights range over 0..MaxDim
MaxDim == 3

Dims == 0 .. MaxDim
PhysicalSizes == [width : Dims, height : Dims]
WindowSizes == {sz \in PhysicalSizes : sz.width > 0 /\ sz.height > 0}

\* handles of the high-res textures: a new texture never shares its handle
\* with a texture something still refers to
TextureIds == 1 .. 4
LowResId == 0

SurfaceErrors == {"Timeout", "Outdated", "Lost", "OutOfMemory"}
RenderResults == {"Ok"} \cup SurfaceErrors

(***************************************************************************)
(* GPU resources                                                           *)
(***************************************************************************)
\* mutant: width and height exchanged in the descriptor
create_texture_swapped(id, width, height, label) ==
    [id |-> id, width |-> height, height |-> width, label |-> label]

create_texture(id, width, height, label) ==
    [id |-> id, width |-> width, height |-> height, label |-> label]

FreshTextureId(s) ==
    CHOOSE id \in TextureIds :
        /\ id \notin {s.high_res_texture.id,
                      s.high_res_render_bind_group.texture,
                      s.compute_bind_group.texture}
        /\ \A j \in TextureIds :
              j < id => j \in {s.high_res_texture.id,
                               s.high_res_render_bind_group.texture,
                               s.compute_bind_group.texture}

\* mutant: the window's screen_dims are passed on to the preview
PreviewParams_window_dims(view_params) == view_params

\* ViewParams { screen_dims: [LOW_RES_WIDTH, LOW_RES_HEIGHT], ..view_params }
PreviewParams(view_params) ==
    [view_params EXCEPT !.screen_dims = <<LOW_RES_WIDTH, LOW_RES_HEIGHT>>]

\* vec![0u8; (width * height * 4) as usize]: the length of the buffer (the
\* u32 product does not wrap for the dimensions of the model)
PreviewLen(params) ==
    params.screen_dims[1] * params.screen_dims[2] * 4

\* the Vec<u8> compute_cpu_preview returns, kept as its length and the
\* parameters that determine its bytes
compute_cpu_preview_buffer(params) ==
    [len |-> PreviewLen(params), params |-> params]

WriteLowResTexture(s, low_res_pixels) ==
    [s EXCEPT
        !.queue = Append(@, [kind |-> "write_texture",
                             texture |-> s.low_res_texture.id,
                             len |-> low_res_pixels.len]),
        !.low_res_pixels = low_res_pixels]

\* x.ceil() for the rational x = num / den, den > 0
Ceil(num, den) == -((-num) \div den)

\* mutant: the quotient is truncated
WorkgroupCount_truncated(n) == n \div 8

\* (n as f32 / 8.0).ceil() as u32: n as f32 is n for n < 2^24 (a texture is at
\* most 8192 wide under Limits::default()) and the division by 8.0 is exact
WorkgroupCount(n) == Ceil(n, 8)

(***************************************************************************)
(* State::trigger_render                                                   *)
(***************************************************************************)
\* mutant: the uniform is written but no compute pass is recorded
SubmitCompute_upload_only(s) ==
    LET s1 == [s EXCEPT !.view_params.screen_dims = <<s.size.width, s.size.height>>]
    IN [s1 EXCEPT !.view_params_buffer = s1.view_params,
                  !.queue = Append(@, [kind |-> "write_buffer",
                                       data |-> s1.view_params])]

\* mutant: the dispatch is submitted without the write of the uniform
SubmitCompute_stale_uniform(s) ==
    LET s1 == [s EXCEPT !.view_params.screen_dims = <<s.size.width, s.size.height>>]
    IN [s1 EXCEPT !.queue = Append(@,
            [kind |-> "compute",
             texture |-> s1.compute_bind_group.texture,
             uniform |-> s1.view_params_buffer,
             x |-> WorkgroupCount(s1.size.width),
             y |-> WorkgroupCount(s1.size.height),
             z |-> 1]),
                  !.dispatched = @ \cup {s1.compute_bind_group.texture}]

SubmitCompute(s) ==
    LET s1 == [s EXCEPT !.view_params.screen_dims = <<s.size.width, s.size.height>>]
        s2 == [s1 EXCEPT !.view_params_buffer = s1.view_params,
                         !.queue = Append(@, [kind |-> "write_buffer",
                                              data |-> s1.view_params])]
    IN [s2 EXCEPT !.queue = Append(@,
            [kind |-> "compute",
             texture |-> s2.compute_bind_group.texture,
             uniform |-> s2.view_params_buffer,
             x |-> WorkgroupCount(s2.size.width),
             y |-> WorkgroupCount(s2.size.height),
             z |-> 1]),
                  !.dispatched = @ \cup {s2.compute_bind_group.texture}]

\* mutant: the compute pass is submitted twice
trigger_render_twice(s, with_preview) ==
    LET s0 == IF with_preview
              THEN [WriteLowResTexture(s,
                        compute_cpu_preview_buffer(PreviewParams(s.view_params)))
                    EXCEPT !.show_low_res = TRUE]
              ELSE s
    IN SubmitCompute(SubmitCompute(s0))

trigger_render(s, with_preview) ==
    LET s0 == IF with_preview
              THEN [WriteLowResTexture(s,
                        compute_cpu_preview_buffer(PreviewParams(s.view_params)))
                    EXCEPT !.show_low_res = TRUE]
              ELSE s
    IN SubmitCompute(s0)

(***************************************************************************)
(* State::new                                                              *)
(***************************************************************************)
NewFields(size) ==
    [size |-> size,
     config |-> [width |-> size.width, height |-> size.height],
     view_params |-> [center |-> << <<-1, 2>>, <<0, 1>> >>,
                      range |-> << <<7, 2>>, <<2, 1>> >>,
                      screen_dims |-> <<size.width, size.height>>],
     view_params_buffer |-> [center |-> << <<-1, 2>>, <<0, 1>> >>,
                             range |-> << <<7, 2>>, <<2, 1>> >>,
                             screen_dims |-> <<size.width, size.height>>],
     high_res_texture |-> create_texture(1, size.width, size.height, "High-Res Texture"),
     low_res_texture |-> create_texture(LowResId, LOW_RES_WIDTH, LOW_RES_HEIGHT, "Low-Res Texture"),
     low_res_pixels |-> [len |-> 0, params |-> <<>>],
     high_res_render_bind_group |-> [label |-> "High-Res Render Bind Group", texture |-> 1],
     low_res_render_bind_group |-> [label |-> "Low-Res Render Bind Group", texture |-> LowResId],
     compute_bind_group |-> [label |-> "Compute Bind Group", texture |-> 1],
     show_low_res |-> FALSE,
     queue |-> <<>>,
     \* the live textures a compute dispatch has been submitted for
     dispatched |-> {}]

new(size) ==
    LET s == trigger_render(NewFields(size), FALSE)
        low_res_pixels == compute_cpu_preview_buffer(PreviewParams(s.view_params))
    IN [WriteLowResTexture(s, low_res_pixels) EXCEPT !.show_low_res = TRUE]

(***************************************************************************)
(* State::resize                                                           *)
(***************************************************************************)
\* mutant: the compute bind group is not rebuilt
ResizeAccepted_stale_compute_bind_group(s, new_size) ==
    LET id == FreshTextureId(s)
        s1 == [s EXCEPT
                 !.size = new_size,
                 !.config = [width |-> new_size.width, height |-> new_size.height],
                 !.high_res_texture =
                     create_texture(id, new_size.width, new_size.height, "High-Res Texture"),
                 !.dispatched = {},
                 !.high_res_render_bind_group =
                     [label |-> "High-Res Render Bind Group", texture |-> id],
                 !.view_params.screen_dims = <<new_size.width, new_size.height>>]
    IN trigger_render(s1, FALSE)

\* mutant: the low-res texture is recreated at the new size as well
ResizeAccepted_recreates_low_res(s, new_size) ==
    LET id == FreshTextureId(s)
        s1 == [s EXCEPT
                 !.size = new_size,
                 !.config = [width |-> new_size.width, height |-> new_size.height],
                 !.high_res_texture =
                     create_texture(id, new_size.width, new_size.height, "High-Res Texture"),
                 !.low_res_texture =
                     create_texture(LowResId, new_size.width, new_size.height, "Low-Res Texture"),
                 !.dispatched = {},
                 !.high_res_render_bind_group =
                     [label |-> "High-Res Render Bind Group", texture |-> id],
                 !.compute_bind_group =
                     [label |-> "Compute Bind Group", texture |-> id],
                 !.view_params.screen_dims = <<new_size.width, new_size.height>>]
    IN trigger_render(s1, FALSE)

\* mutant: self.size keeps the old size
ResizeAccepted_size_not_stored(s, new_size) ==
    LET id == FreshTextureId(s)
        s1 == [s EXCEPT
                 !.config = [width |-> new_size.width, height |-> new_size.height],
                 !.high_res_texture =
                     create_texture(id, new_size.width, new_size.height, "High-Res Texture"),
                 !.dispatched = {},
                 !.high_res_render_bind_group =
                     [label |-> "High-Res Render Bind Group", texture |-> id],
                 !.compute_bind_group =
                     [label |-> "Compute Bind Group", texture |-> id],
                 !.view_params.screen_dims = <<new_size.width, new_size.height>>]
    IN trigger_render(s1, FALSE)

\* the body of the if: reconfigure, recreate the texture and its bind groups
\* (the old texture is dropped by the assignment and the new one is a new
\* object: no dispatch has been submitted for it)
ResizeAccepted(s, new_size) ==
    LET id == FreshTextureId(s)
        s1 == [s EXCEPT
                 !.size = new_size,
                 !.config = [width |-> new_size.width, height |-> new_size.height],
                 !.high_res_texture =
                     create_texture(id, new_size.width, new_size.height, "High-Res Texture"),
                 !.dispatched = {},
                 !.high_res_render_bind_group =
                     [label |-> "High-Res Render Bind Group", texture |-> id],
                 !.compute_bind_group =
                     [label |-> "Compute Bind Group", texture |-> id],
                 !.view_params.screen_dims = <<new_size.width, new_size.height>>]
    IN trigger_render(s1, FALSE)

\* mutant: || in place of && in the guard
resize_either_dimension(s, new_size) ==
    IF new_size.width > 0 \/ new_size.height > 0
    THEN ResizeAccepted(s, new_size)
    ELSE s

resize(s, new_size) ==
    IF new_size.width > 0 /\ new_size.height > 0
    THEN ResizeAccepted(s, new_size)
    ELSE s

(***************************************************************************)
(* State::render                                                           *)
(***************************************************************************)
\* mutant: the low-res draw leaves the flag set
RenderOk_flag_kept(s) ==
    IF s.show_low_res
    THEN [s EXCEPT !.queue = Append(@, [kind |-> "draw",
                                        bind_group |-> s.low_res_render_bind_group.label,
                                        texture |-> s.low_res_render_bind_group.texture])]
    ELSE [s EXCEPT !.queue = Append(@, [kind |-> "draw",
                                        bind_group |-> s.high_res_render_bind_group.label,
                                        texture |-> s.high_res_render_bind_group.texture])]

\* surface.get_current_texture()? returned Ok: the pass is recorded and submitted
RenderOk(s) ==
    IF s.show_low_res
    THEN [s EXCEPT !.queue = Append(@, [kind |-> "draw",
                                        bind_group |-> s.low_res_render_bind_group.label,
                                        texture |-> s.low_res_render_bind_group.texture]),
                   !.show_low_res = FALSE]
    ELSE [s EXCEPT !.queue = Append(@, [kind |-> "draw",
                                        bind_group |-> s.high_res_render_bind_group.label,
                                        texture |-> s.high_res_render_bind_group.texture])]

\* mutant: the flag is consumed before the surface texture is acquired
render_flag_consumed_first(s, result) ==
    IF result = "Ok" THEN RenderOk(s) ELSE [s EXCEPT !.show_low_res = FALSE]

\* mutant: a presented frame triggers a new compute pass
render_recomputes(s, result) ==
    IF result = "Ok" THEN trigger_render(RenderOk(s), FALSE) ELSE s

\* the ? operator returns the error before anything else is done
render(s, result) ==
    IF result = "Ok" THEN RenderOk(s) ELSE s

(***************************************************************************)
(* The event loop                                                          *)
(***************************************************************************)
\* each handler starts with an empty record of what it submitted
Begin(s) == [s EXCEPT !.queue = <<>>]

\* a resize or a construction restarts the count of presented frames
Accepted(new_size) == new_size.width > 0 /\ new_size.height > 0

\* mutant: Lost is only reported, like the other errors
AfterRender_lost_reported(s, result) ==
    CASE result = "OutOfMemory" -> [state |-> s, control_flow |-> "Exit"]
      [] OTHER -> [state |-> s, control_flow |-> "Poll"]

\* mutant: OutOfMemory is only reported, like the other errors
AfterRender_oom_reported(s, result) ==
    CASE result = "Lost" -> [state |-> resize(s, s.size), control_flow |-> "Poll"]
      [] OTHER -> [state |-> s, control_flow |-> "Poll"]

\* the match on state.render() in the RedrawRequested arm
AfterRender(s, result) ==
    CASE result = "Lost" -> [state |-> resize(s, s.size), control_flow |-> "Poll"]
      [] result = "OutOfMemory" -> [state |-> s, control_flow |-> "Exit"]
      [] OTHER -> [state |-> s, control_flow |-> "Poll"]

Resized ==
    /\ control_flow = "Poll"
    /\ \E physical_size \in PhysicalSizes :
          /\ state' = resize(Begin(state), physical_size)
          /\ last_event' = [name |-> "Resized", size |-> physical_size, result |-> "none"]
          /\ renders_since_trigger' =
                IF Accepted(physical_size) THEN 0 ELSE renders_since_trigger
    /\ UNCHANGED <<control_flow, redraw_requested, pixel, preview>>

ScaleFactorChanged ==
    /\ control_flow = "Poll"
    /\ \E new_inner_size \in PhysicalSizes :
          /\ state' = resize(Begin(state), new_inner_size)
          /\ last_event' = [name |-> "ScaleFactorChanged", size |-> new_inner_size,
                            result |-> "none"]
          /\ renders_since_trigger' =
                IF Accepted(new_inner_size) THEN 0 ELSE renders_since_trigger
    /\ UNCHANGED <<control_flow, redraw_requested, pixel, preview>>

CloseRequested ==
    /\ control_flow = "Poll"
    /\ control_flow' = "Exit"
    /\ state' = Begin(state)
    /\ last_event' = [name |-> "CloseRequested", size |-> state.size, result |-> "none"]
    /\ UNCHANGED <<redraw_requested, renders_since_trigger, pixel, preview>>

MainEventsCleared ==
    /\ control_flow = "Poll"
    /\ redraw_requested' = TRUE
    /\ state' = Begin(state)
    /\ last_event' = [name |-> "MainEventsCleared", size |-> state.size, result |-> "none"]
    /\ UNCHANGED <<control_flow, renders_since_trigger, pixel, preview>>

RedrawRequested ==
    /\ control_flow = "Poll"
    /\ redraw_requested
    /\ \E result \in RenderResults :
          LET rendered == render(Begin(state), result)
              after == AfterRender(rendered, result)
          IN /\ state' = after.state
             /\ control_flow' = after.control_flow
             /\ last_event' = [name |-> "RedrawRequested", size |-> state.size,
                               result |-> result]
             /\ renders_since_trigger' =
                   CASE result = "Ok" ->
                            IF renders_since_trigger < 2
                            THEN renders_since_trigger + 1 ELSE 2
                     [] result = "Lost" -> 0
                     [] OTHER -> renders_since_trigger
    /\ redraw_requested' = FALSE
    /\ UNCHANGED <<pixel, preview>>

PixelIdle == [pc |-> "idle"]
PreviewIdle == [pc |-> "idle"]

Init ==
    /\ \E size \in WindowSizes : state = new(size)
    /\ control_flow = "Poll"
    /\ redraw_requested = FALSE
    /\ last_event = [name |-> "new", size |-> state.size, result |-> "none"]
    /\ renders_since_trigger = 0
    /\ pixel = PixelIdle
    /\ preview = PreviewIdle

Next ==
    \/ Resized
    \/ ScaleFactorChanged
    \/ CloseRequested
    \/ MainEventsCleared
    \/ RedrawRequested

Spec == Init /\ [][Next]_vars

(***************************************************************************)
(* The engine built on a window of any size: State::new stores              *)
(* window.inner_size() as it is, a zero width or height included            *)
(***************************************************************************)
InitAnyWindow ==
    /\ \E size \in PhysicalSizes : state = new(size)
    /\ control_flow = "Poll"
    /\ redraw_requested = FALSE
    /\ last_event = [name |-> "new", size |-> state.size, result |-> "none"]
    /\ renders_since_trigger = 0
    /\ pixel = PixelIdle
    /\ preview = PreviewIdle

SpecAnyWindow == InitAnyWindow /\ [][Next]_vars

(***************************************************************************)
(* The engine under window sizes that cross the workgroup width            *)
(***************************************************************************)
MaxGridDim == 17
GridSizes == [width : 1 .. MaxGridDim, height : 1 .. MaxGridDim]

InitGrid ==
    /\ \E size \in GridSizes : state = new(size)
    /\ control_flow = "Poll"
    /\ redraw_requested = FALSE
    /\ last_event = [name |-> "new", size |-> state.size, result |-> "none"]
    /\ renders_since_trigger = 0
    /\ pixel = PixelIdle
    /\ preview = PreviewIdle

GridResized ==
    /\ control_flow = "Poll"
    /\ \E physical_size \in GridSizes :
          /\ state' = resize(Begin(state), physical_size)
          /\ last_event' = [name |-> "Resized", size |-> physical_size, result |-> "none"]
    /\ renders_since_trigger' = 0
    /\ UNCHANGED <<control_flow, redraw_requested, pixel, preview>>

NextGrid == GridResized

SpecGrid == InitGrid /\ [][NextGrid]_vars

(***************************************************************************)
(* Properties of the engine (Spec)                                         *)
(***************************************************************************)
\* the State without the record of the last handler's submissions
Fields(s) == [s EXCEPT !.queue = <<>>]

IsDraw(cmd) == cmd.kind = "draw"
IsCompute(cmd) == cmd.kind = "compute"
IsUpload(cmd) == cmd.kind = "write_texture"
Draws(s) == SelectSeq(s.queue, IsDraw)
Computes(s) == SelectSeq(s.queue, IsCompute)
Uploads(s) == SelectSeq(s.queue, IsUpload)

LowResDraw(s) ==
    [kind |-> "draw", bind_group |-> "Low-Res Render Bind Group", texture |-> LowResId]
HighResDraw(s) ==
    [kind |-> "draw", bind_group |-> "High-Res Render Bind Group",
     texture |-> s.high_res_render_bind_group.texture]

ResizeEvents == {"Resized", "ScaleFactorChanged"}
RenderedOk(ev) == ev.name = "RedrawRequested" /\ ev.result = "Ok"
RenderedLost(ev) == ev.name = "RedrawRequested" /\ ev.result = "Lost"
RenderedOom(ev) == ev.name = "RedrawRequested" /\ ev.result = "OutOfMemory"
RenderedOtherError(ev) ==
    ev.name = "RedrawRequested" /\ ev.result \in SurfaceErrors \ {"Lost", "OutOfMemory"}
ZeroResize(ev) ==
    ev.name \in ResizeEvents /\ (ev.size.width = 0 \/ ev.size.height = 0)

\* C1: the first successful render() after construction or after a resize
\* draws the low-res bind set, once; every later render() until the next
\* resize draws the high-res bind set.
C1_PreviewOnceAfterNewOrResize ==
    RenderedOk(last_event) =>
        /\ renders_since_trigger = 1 => Draws(state) = <<LowResDraw(state)>>
        /\ renders_since_trigger = 2 => Draws(state) = <<HighResDraw(state)>>

\* C2: after resize(width, height) with both > 0 the high-res texture has
\* dimensions (width, height) and view_params.screen_dims = (width, height).
C2_ResizeSetsDimensions ==
    (last_event.name \in ResizeEvents /\ Accepted(last_event.size)) =>
        /\ state.high_res_texture.width = last_event.size.width
        /\ state.high_res_texture.height = last_event.size.height
        /\ state.view_params.screen_dims =
               <<last_event.size.width, last_event.size.height>>

C2_Witness ==
    /\ last_event.name = "Resized"
    /\ last_event.size = [width |-> 2, height |-> 3]
    /\ state.high_res_texture.width = 2
    /\ state.high_res_texture.height = 3
    /\ state.view_params.screen_dims = <<2, 3>>

\* C3: a resize with a zero width or a zero height changes no field of the
\* State and submits nothing.
C3_ZeroResizeChangesNothing ==
    [][ZeroResize(last_event') =>
          /\ Fields(state') = Fields(state)
          /\ state'.queue = <<>>]_vars

C3_Witness ==
    /\ last_event.name = "Resized"
    /\ last_event.size = [width |-> 0, height |-> 2]
    /\ state.size.width > 0
    /\ state.show_low_res
    /\ state.queue = <<>>

\* C4: on Lost the handler re-runs resize at the current size (surface
\* reconfigured, high-res texture recreated, bind groups rebuilt on it, one
\* fresh compute dispatch, size unchanged) and the loop keeps running.
C4_LostRerunsResize ==
    [][RenderedLost(last_event') =>
          /\ state'.size = state.size
          /\ state'.config = [width |-> state.size.width, height |-> state.size.height]
          /\ state'.high_res_texture.id # state.high_res_texture.id
          /\ state'.high_res_texture.width = state.size.width
          /\ state'.high_res_texture.height = state.size.height
          /\ state'.high_res_render_bind_group.texture = state'.high_res_texture.id
          /\ state'.compute_bind_group.texture = state'.high_res_texture.id
          /\ Len(Computes(state')) = 1
          /\ Computes(state')[1].texture = state'.high_res_texture.id
          /\ Draws(state') = <<>>
          /\ control_flow' = "Poll"]_vars

C4_Witness ==
    /\ RenderedLost(last_event)
    /\ Len(Computes(state)) = 1
    /\ state.high_res_texture.id # 1
    /\ control_flow = "Poll"

\* C5: once render() has returned OutOfMemory the loop has exited: no later
\* step calls render() or resize() (nothing changes the State any more).
C5_OomTerminates ==
    [][RenderedOom(last_event) =>
          /\ control_flow = "Exit"
          /\ UNCHANGED <<state, last_event, control_flow>>]_vars

C5_Witness ==
    /\ RenderedOom(last_event)
    /\ control_flow = "Exit"
    /\ state.queue = <<>>

\* C6: a render() failing with another surface error draws nothing, leaves
\* the State unchanged (the preview flag too) and the loop continues; a
\* pending preview is drawn by the next successful render().
C6_OtherErrorSkipsFrame ==
    [][/\ RenderedOtherError(last_event') =>
             /\ Fields(state') = Fields(state)
             /\ state'.queue = <<>>
             /\ control_flow' = "Poll"
       /\ (RenderedOk(last_event') /\ state.show_low_res) =>
             /\ Draws(state') = <<LowResDraw(state')>>
             /\ ~state'.show_low_res]_vars

C6_Witness ==
    /\ RenderedOtherError(last_event)
    /\ state.show_low_res
    /\ state.queue = <<>>
    /\ control_flow = "Poll"

\* C7: every preview buffer has LOW_RES_WIDTH * LOW_RES_HEIGHT * 4 bytes,
\* computed for screen_dims (320, 180), whatever the window size.
C7_PreviewBufferSize ==
    /\ state.low_res_pixels.len = LOW_RES_WIDTH * LOW_RES_HEIGHT * 4
    /\ state.low_res_pixels.len = 230400
    /\ state.low_res_pixels.params.screen_dims = <<LOW_RES_WIDTH, LOW_RES_HEIGHT>>
    /\ \A i \in 1 .. Len(Uploads(state)) : Uploads(state)[i].len = 230400

C7_Witness ==
    /\ last_event.name = "new"
    /\ state.size = [width |-> 3, height |-> 2]
    /\ Len(Uploads(state)) = 1
    /\ state.low_res_pixels.len = 230400

\* C13 as stated: every resize with both dimensions > 0 recomputes the
\* preview and uploads it to the low-res texture, leaves the preview flag
\* set, and submits the high-res compute dispatch.
C13_ResizeRecomputesPreview ==
    (last_event.name \in ResizeEvents /\ Accepted(last_event.size)) =>
        /\ Len(Uploads(state)) = 1
        /\ state.show_low_res
        /\ Len(Computes(state)) = 1

\* C14: the compute bind group and the high-res render bind group refer
\* to the current high-res texture, in every reachable state.
C14_BindGroupsFollowTexture ==
    /\ state.compute_bind_group.texture = state.high_res_texture.id
    /\ state.high_res_render_bind_group.texture = state.high_res_texture.id
    /\ state.high_res_texture.id \in TextureIds
    /\ \A i \in 1 .. Len(state.queue) :
          (IsCompute(state.queue[i])
              \/ (IsDraw(state.queue[i])
                    /\ state.queue[i].bind_group = "High-Res Render Bind Group")) =>
             state.queue[i].texture = state.high_res_texture.id

C14_Witness ==
    /\ RenderedOk(last_event)
    /\ state.high_res_texture.id # 1
    /\ state.size = [width |-> 2, height |-> 1]
    /\ Draws(state) = <<HighResDraw(state)>>
    /\ state.compute_bind_group.texture = state.high_res_texture.id

\* C15: every draw of the high-res bind set samples a texture for which a
\* compute dispatch was submitted earlier on the queue, since that texture
\* was created; the bind set that render() would sample always names such
\* a texture, also right after a resize.
C15_DrawAfterDispatch ==
    /\ state.high_res_render_bind_group.texture \in state.dispatched
    /\ \A i \in 1 .. Len(state.queue) :
          (IsDraw(state.queue[i])
              /\ state.queue[i].bind_group = "High-Res Render Bind Group") =>
             /\ state.queue[i].texture \in state.dispatched
             /\ \A j \in 1 .. Len(state.queue) :
                   IsCompute(state.queue[j]) => j < i
    /\ \A result \in RenderResults :
          \A i \in 1 .. Len(render(Begin(state), result).queue) :
             render(Begin(state), result).queue[i].texture
                 \in state.dispatched \cup {LowResId}

C15_Witness ==
    /\ RenderedOk(last_event)
    /\ renders_since_trigger = 2
    /\ state.high_res_texture.id = 2
    /\ Draws(state) = <<HighResDraw(state)>>
    /\ state.dispatched = {2}

\* C16: construction submits exactly one compute dispatch, a resize with
\* both dimensions > 0 exactly one, a rejected resize none and render() none
\* (the one dispatch of a Lost frame is that of the resize re-run by the
\* handler).
C16_OneDispatchPerTrigger ==
    /\ last_event.name = "new" => Len(Computes(state)) = 1
    /\ last_event.name \in ResizeEvents =>
          Len(Computes(state)) = IF Accepted(last_event.size) THEN 1 ELSE 0
    /\ last_event.name = "RedrawRequested" =>
          Len(Computes(state)) = IF last_event.result = "Lost" THEN 1 ELSE 0
    /\ last_event.name \in {"CloseRequested", "MainEventsCleared"} =>
          Computes(state) = <<>>
    /\ \A result \in RenderResults : Computes(render(Begin(state), result)) = <<>>
    /\ \A physical_size \in PhysicalSizes :
          Len(Computes(resize(Begin(state), physical_size))) =
              IF Accepted(physical_size) THEN 1 ELSE 0

C16_Witness ==
    /\ last_event.name = "ScaleFactorChanged"
    /\ last_event.size = [width |-> 3, height |-> 1]
    /\ renders_since_trigger = 0
    /\ state.high_res_texture.id = 1
    /\ Len(Computes(state)) = 1
    /\ Len(state.queue) = 2

\* C17: every dispatch has the grid (ceil(width/8), ceil(height/8), 1) for
\* the current size: 8*x >= width, 8*(x-1) < width, 8*y >= height,
\* 8*(y-1) < height.
C17_GridCoversTexture ==
    \A i \in 1 .. Len(state.queue) :
       IsCompute(state.queue[i]) =>
          /\ state.size.width > 0 /\ state.size.height > 0
          /\ state.high_res_texture.width = state.size.width
          /\ state.high_res_texture.height = state.size.height
          /\ 8 * state.queue[i].x >= state.size.width
          /\ 8 * (state.queue[i].x - 1) < state.size.width
          /\ 8 * state.queue[i].y >= state.size.height
          /\ 8 * (state.queue[i].y - 1) < state.size.height
          /\ state.queue[i].z = 1

C17_Witness ==
    /\ last_event.name = "Resized"
    /\ state.size = [width |-> 9, height |-> 16]
    /\ Len(Computes(state)) = 1
    /\ Computes(state)[1].x = 2
    /\ Computes(state)[1].y = 2
    /\ Computes(state)[1].z = 1

\* C18: the preview flag rises only in a handler that uploaded a preview to
\* the low-res texture, and a handler that uploaded leaves it set; render()
\* draws the low-res bind set only when the flag is set, which it clears, so
\* that the next render() draws the high-res bind set unless a new upload
\* came in between.
C18_UploadConsumedOnce ==
    /\ [](Uploads(state) # <<>> =>
            /\ state.show_low_res
            /\ \A i \in 1 .. Len(Uploads(state)) :
                  Uploads(state)[i].texture = state.low_res_texture.id)
    /\ [][(state'.show_low_res /\ ~state.show_low_res) =>
             Uploads(state') # <<>>]_vars
    /\ [][RenderedOk(last_event') =>
             /\ state.show_low_res =>
                   /\ Draws(state') = <<LowResDraw(state)>>
                   /\ ~state'.show_low_res
             /\ ~state.show_low_res =>
                   /\ Draws(state') = <<HighResDraw(state)>>
                   /\ ~state'.show_low_res]_vars
    /\ [][(\E i \in 1 .. Len(state'.queue) :
              state'.queue[i] = LowResDraw(state')) =>
             /\ RenderedOk(last_event')
             /\ state.show_low_res
             /\ ~state'.show_low_res]_vars

C18_Witness ==
    /\ RenderedOk(last_event)
    /\ renders_since_trigger = 1
    /\ Draws(state) = <<LowResDraw(state)>>
    /\ ~state.show_low_res
    /\ state.low_res_pixels.len > 0

\* C19: every compute dispatch is preceded, in the same handler, by the
\* write of the current ViewParams to the uniform buffer, with nothing in
\* between, and the screen_dims it reads are the dimensions of the high-res
\* texture it writes.
C19_UniformCurrentAtDispatch ==
    /\ state.view_params_buffer = state.view_params
    /\ \A i \in 1 .. Len(state.queue) :
          IsCompute(state.queue[i]) =>
             /\ i > 1
             /\ state.queue[i - 1] =
                    [kind |-> "write_buffer", data |-> state.view_params]
             /\ state.queue[i].uniform = state.view_params
             /\ state.queue[i].texture = state.high_res_texture.id
             /\ state.queue[i].uniform.screen_dims =
                    <<state.high_res_texture.width, state.high_res_texture.height>>

C19_Witness ==
    /\ last_event.name = "Resized"
    /\ last_event.size = [width |-> 1, height |-> 3]
    /\ state.high_res_texture.id = 2
    /\ Len(Computes(state)) = 1
    /\ Computes(state)[1].uniform.screen_dims = <<1, 3>>
    /\ state.queue[1].kind = "write_buffer"

\* C20: the low-res texture and its bind group are those of construction in
\* every state; uploads write the low-res texture only, and no compute
\* dispatch or compute bind group has it as target.
C20_LowResTextureFixed ==
    /\ [](/\ state.low_res_texture =
              create_texture(LowResId, LOW_RES_WIDTH, LOW_RES_HEIGHT, "Low-Res Texture")
          /\ state.low_res_render_bind_group.texture = state.low_res_texture.id
          /\ state.compute_bind_group.texture # state.low_res_texture.id
          /\ \A i \in 1 .. Len(state.queue) :
                /\ IsCompute(state.queue[i]) =>
                      state.queue[i].texture # state.low_res_texture.id
                /\ IsUpload(state.queue[i]) =>
                      state.queue[i].texture = state.low_res_texture.id)
    /\ [][/\ state'.low_res_texture = state.low_res_texture
          /\ state'.low_res_render_bind_group = state.low_res_render_bind_group
          /\ state'.low_res_pixels = state.low_res_pixels
          /\ Uploads(state') = <<>>]_vars

C20_Witness ==
    /\ last_event.name = "ScaleFactorChanged"
    /\ last_event.size = [width |-> 2, height |-> 2]
    /\ state.size = [width |-> 2, height |-> 2]
    /\ state.high_res_texture.id = 2
    /\ state.low_res_texture.width = LOW_RES_WIDTH
    /\ state.low_res_texture.height = LOW_RES_HEIGHT
    /\ state.low_res_texture.id = LowResId

C23_SizeRecordsAgree ==
    /\ state.config = [width |-> state.size.width, height |-> state.size.height]
    /\ state.view_params.screen_dims = <<state.size.width, state.size.height>>
    /\ state.high_res_texture.width = state.size.width
    /\ state.high_res_texture.height = state.size.height

C23_Witness ==
    /\ RenderedOk(last_event)
    /\ renders_since_trigger = 2
    /\ state.size = [width |-> 3, height |-> 2]
    /\ state.config = [width |-> 3, height |-> 2]
    /\ state.view_params.screen_dims = <<3, 2>>
    /\ state.high_res_texture.width = 3
    /\ state.high_res_texture.height = 2
    /\ state.high_res_texture.id = 2

\* what a successful render() may change: the preview flag and the record of
\* the handler's submissions
ExceptFlag(s) == [s EXCEPT !.queue = <<>>, !.show_low_res = FALSE]

\* C24: a successful render() changes no field of the State but the preview
\* flag and submits one draw and no compute dispatch; no resize and no
\* render() changes view_params.center or view_params.range.
C24_RenderChangesOnlyFlag ==
    /\ [][RenderedOk(last_event') =>
             /\ ExceptFlag(state') = ExceptFlag(state)
             /\ Computes(state') = <<>>
             /\ Len(state'.queue) = 1
             /\ IsDraw(state'.queue[1])]_vars
    /\ [][/\ state'.view_params.center = state.view_params.center
          /\ state'.view_params.range = state.view_params.range]_vars

C24_Witness ==
    /\ RenderedOk(last_event)
    /\ renders_since_trigger = 1
    /\ state.size = [width |-> 3, height |-> 3]
    /\ state.high_res_texture.id = 2
    /\ ~state.show_low_res
    /\ Len(state.queue) = 1
    /\ state.view_params.center = << <<-1, 2>>, <<0, 1>> >>
    /\ state.view_params.range = << <<7, 2>>, <<2, 1>> >>

(***************************************************************************)
(* hsv_to_rgb_u8: h, s, v are rationals <<num, den>>                       *)
(***************************************************************************)
\* (x * 255.0) as u8 for x = n/d: truncation, saturating at 0 and 255
AsU8(n, d) ==
    IF n <= 0 THEN 0
    ELSE IF (255 * n) \div d > 255 THEN 255 ELSE (255 * n) \div d

\* mutant: the arms of sectors 2 and 4 are exchanged
hsv_to_rgb_u8_arms_exchanged(h, s, v) ==
    IF s[1] = 0
    THEN LET val == AsU8(v[1], v[2]) IN <<val, val, val>>
    ELSE LET hd == 60 * h[2]
             i == h[1] \div hd
             fn == h[1] - i * hd
             den == v[2] * s[2] * hd
             vv == <<v[1] * s[2] * hd, den>>
             p == <<v[1] * (s[2] - s[1]) * hd, den>>
             q == <<v[1] * (s[2] * hd - s[1] * fn), den>>
             t == <<v[1] * (s[2] * hd - s[1] * (hd - fn)), den>>
             rgb == CASE i = 0 -> <<vv, t, p>>
                      [] i = 1 -> <<q, vv, p>>
                      [] i = 2 -> <<t, p, vv>>
                      [] i = 3 -> <<p, q, vv>>
                      [] i = 4 -> <<p, vv, t>>
                      [] OTHER -> <<vv, p, q>>
         IN <<AsU8(rgb[1][1], rgb[1][2]),
              AsU8(rgb[2][1], rgb[2][2]),
              AsU8(rgb[3][1], rgb[3][2])>>

hsv_to_rgb_u8(h, s, v) ==
    IF s[1] = 0
    THEN LET val == AsU8(v[1], v[2]) IN <<val, val, val>>
    ELSE LET hd == 60 * h[2]                \* h_sector = h[1] / hd
             i == h[1] \div hd              \* h_sector.floor() as i32
             fn == h[1] - i * hd            \* f = fn / hd
             den == v[2] * s[2] * hd
             vv == <<v[1] * s[2] * hd, den>>
             p == <<v[1] * (s[2] - s[1]) * hd, den>>
             q == <<v[1] * (s[2] * hd - s[1] * fn), den>>
             t == <<v[1] * (s[2] * hd - s[1] * (hd - fn)), den>>
             rgb == CASE i = 0 -> <<vv, t, p>>
                      [] i = 1 -> <<q, vv, p>>
                      [] i = 2 -> <<p, vv, t>>
                      [] i = 3 -> <<p, q, vv>>
                      [] i = 4 -> <<t, p, vv>>
                      [] OTHER -> <<vv, p, q>>
         IN <<AsU8(rgb[1][1], rgb[1][2]),
              AsU8(rgb[2][1], rgb[2][2]),
              AsU8(rgb[3][1], rgb[3][2])>>

(***************************************************************************)
(* compute_cpu_preview: one pixel                                          *)
(***************************************************************************)
\* mutant: the loop stops as soon as |z|^2 reaches 4 (< in place of <=)
LoopCond_strict(z_real, z_imag, iterations) ==
    /\ z_real * z_real + z_imag * z_imag < 4
    /\ iterations < PREVIEW_ITERATIONS

\* mutant: one iteration too many (<= in place of < on the cap)
LoopCond_cap_inclusive(z_real, z_imag, iterations) ==
    /\ z_real * z_real + z_imag * z_imag <= 4
    /\ iterations <= PREVIEW_ITERATIONS

\* while z_real * z_real + z_imag * z_imag <= 4.0 && iterations < PREVIEW_ITERATIONS
LoopCond(z_real, z_imag, iterations) ==
    /\ z_real * z_real + z_imag * z_imag <= 4
    /\ iterations < PREVIEW_ITERATIONS

\* mutant: z_imag is computed from the already updated z_real
LoopBody_imag_from_new_real(l) ==
    LET z_real_new == l.z_real * l.z_real - l.z_imag * l.z_imag + l.c_real
    IN [l EXCEPT !.z_real = z_real_new,
                 !.z_imag = 2 * z_real_new * l.z_imag + l.c_imag,
                 !.iterations = l.iterations + 1]

\* the loop body: z <- z*z + c, iterations += 1
LoopBody(l) ==
    [l EXCEPT !.z_real = l.z_real * l.z_real - l.z_imag * l.z_imag + l.c_real,
              !.z_imag = 2 * l.z_real * l.z_imag + l.c_imag,
              !.iterations = l.iterations + 1]

\* z_imag.atan2(z_real) in units of pi/4, for the directions the integer
\* orbits end in (z_imag is never -0.0: c_imag is never -0.0)
Atan2Quarters(z_imag, z_real) ==
    CASE z_imag = 0 /\ z_real >= 0 -> 0
      [] z_imag = 0 /\ z_real < 0 -> 4
      [] z_real = 0 /\ z_imag > 0 -> 2
      [] z_real = 0 /\ z_imag < 0 -> -2
      [] z_imag = z_real /\ z_real > 0 -> 1
      [] z_imag = -z_real /\ z_real < 0 -> 3
      [] z_imag = z_real /\ z_real < 0 -> -3
      [] z_imag = -z_real /\ z_real > 0 -> -1

\* the colour selection after the loop
InSet(iterations) == iterations = PREVIEW_ITERATIONS

PixelHue(l) ==
    IF InSet(l.iterations)
    THEN \* hue_norm = (angle + PI) / (2 PI); hue = hue_norm * 360
         <<(Atan2Quarters(l.z_imag, l.z_real) + 4) * 360, 8>>
    ELSE \* hue = (iterations / PREVIEW_ITERATIONS) * 360
         <<l.iterations * 360, PREVIEW_ITERATIONS>>

PixelColor(l) ==
    [l EXCEPT !.branch = IF InSet(l.iterations) THEN "in_set" ELSE "escaped",
              !.hue = PixelHue(l),
              !.rgb = hsv_to_rgb_u8(PixelHue(l), <<1, 1>>, <<1, 1>>)]

PixelStart(c_real, c_imag) ==
    [pc |-> "loop", c_real |-> c_real, c_imag |-> c_imag,
     z_real |-> 0, z_imag |-> 0, iterations |-> 0,
     branch |-> "none", hue |-> <<0, 1>>, rgb |-> <<0, 0, 0>>]

\* one pass of the while loop: the body if the condition holds, else nothing
LoopPass(l) ==
    IF LoopCond(l.z_real, l.z_imag, l.iterations) THEN LoopBody(l) ELSE l

\* n passes of the while loop (split in halves to keep the evaluation shallow)
RECURSIVE LoopPasses(_, _)
LoopPasses(l, n) ==
    IF n = 0 THEN l
    ELSE IF n = 1 THEN LoopPass(l)
    ELSE LET half == LoopPasses(l, n \div 2)
         IN IF LoopCond(half.z_real, half.z_imag, half.iterations)
            THEN LoopPasses(half, n - (n \div 2))
            ELSE half

\* the whole while loop: the condition fails after at most PREVIEW_ITERATIONS passes
RunLoop(l) == LoopPasses(l, PREVIEW_ITERATIONS)

ComputePixel(c_real, c_imag) ==
    [PixelColor(RunLoop(PixelStart(c_real, c_imag))) EXCEPT !.pc = "done"]

(***************************************************************************)
(* SpecPixel: the loop of one pixel, step by step, for integer c           *)
(***************************************************************************)
\* c ranges over the integer points of [-MaxC, MaxC]^2
MaxC == 2

CGrid == (-MaxC) .. MaxC

EngineParked ==
    /\ state = new([width |-> 1, height |-> 1])
    /\ control_flow = "Poll"
    /\ redraw_requested = FALSE
    /\ last_event = [name |-> "new", size |-> state.size, result |-> "none"]
    /\ renders_since_trigger = 0

engine_vars == <<state, control_flow, redraw_requested, last_event,
                 renders_since_trigger>>

InitPixel ==
    /\ EngineParked
    /\ \E c_real \in CGrid, c_imag \in CGrid : pixel = PixelStart(c_real, c_imag)
    /\ preview = PreviewIdle

LoopIter ==
    /\ pixel.pc = "loop"
    /\ LoopCond(pixel.z_real, pixel.z_imag, pixel.iterations)
    /\ pixel' = LoopBody(pixel)
    /\ UNCHANGED <<engine_vars, preview>>

LoopExit ==
    /\ pixel.pc = "loop"
    /\ ~LoopCond(pixel.z_real, pixel.z_imag, pixel.iterations)
    /\ pixel' = [pixel EXCEPT !.pc = "color"]
    /\ UNCHANGED <<engine_vars, preview>>

Color ==
    /\ pixel.pc = "color"
    /\ pixel' = [PixelColor(pixel) EXCEPT !.pc = "done"]
    /\ UNCHANGED <<engine_vars, preview>>

NextPixel ==
    \/ LoopIter
    \/ LoopExit
    \/ Color

SpecPixel == InitPixel /\ [][NextPixel]_vars

(***************************************************************************)
(* compute_cpu_preview: the buffer and its parallel row workers            *)
(***************************************************************************)
\* center + (i as f32 / n as f32 - 0.5) * range as the rational <<num, den>>
PixelCoord(center, range, i, n) ==
    <<center[1] * 2 * n * range[2] + (2 * i - n) * range[1] * center[2],
      center[2] * 2 * n * range[2]>>

\* the f32 operations of the coordinate mapping and of the loop are exact:
\* n is a power of two and the coordinate is an integer
IsPowerOfTwo(n) == \E e \in 0 .. 8 : n = 2 ^ e

ExactCoord(center, range, n) ==
    /\ IsPowerOfTwo(n)
    /\ \A i \in 0 .. (n - 1) :
          PixelCoord(center, range, i, n)[1] % PixelCoord(center, range, i, n)[2] = 0

ExactParams(params) ==
    /\ ExactCoord(params.center[1], params.range[1], params.screen_dims[1])
    /\ ExactCoord(params.center[2], params.range[2], params.screen_dims[2])

\* the four bytes the closure stores for pixel (x, y)
PixelBytes(params, x, y) ==
    LET cr == PixelCoord(params.center[1], params.range[1], x, params.screen_dims[1])
        ci == PixelCoord(params.center[2], params.range[2], y, params.screen_dims[2])
        l == ComputePixel(cr[1] \div cr[2], ci[1] \div ci[2])
    IN <<l.rgb[1], l.rgb[2], l.rgb[3], 255>>

\* mutant: rows are laid out a pixel, not four bytes, apart
ChunkStart_pixel_stride(y, chunk_size) == y * (chunk_size \div 4)

\* par_chunks_mut(chunk_size).enumerate(): chunk y starts at byte y * chunk_size
ChunkStart(y, chunk_size) == y * chunk_size

\* row[idx] = r; row[idx + 1] = g; row[idx + 2] = b; row[idx + 3] = 255
\* with idx = x * 4, in the chunk of row y (sequences are 1-based)
WritePixel(pv, x, y) ==
    LET width == pv.params.screen_dims[1]
        base == ChunkStart(y, width * 4) + x * 4
        bytes == PixelBytes(pv.params, x, y)
    IN [pv EXCEPT
          !.pixels = [k \in 1 .. Len(pv.pixels) |->
                         IF k \in (base + 1) .. (base + 4)
                         THEN bytes[k - base] ELSE pv.pixels[k]],
          !.writes = [k \in 1 .. Len(pv.pixels) |->
                         IF k \in (base + 1) .. (base + 4)
                         THEN pv.writes[k] \cup {<<y, x>>} ELSE pv.writes[k]],
          !.next_x[y] = x + 1]

\* let mut pixels = vec![0u8; (width * height * 4) as usize]; one worker per row
PreviewStart(params) ==
    LET width == params.screen_dims[1]
        height == params.screen_dims[2]
    IN [pc |-> "run", params |-> params,
        pixels |-> [k \in 1 .. PreviewLen(params) |-> 0],
        writes |-> [k \in 1 .. PreviewLen(params) |-> {}],
        next_x |-> [y \in 0 .. (height - 1) |-> 0]]

(***************************************************************************)
(* SpecPreview: every interleaving of the row workers                      *)
(***************************************************************************)
\* preview widths are 2^0 .. 2^MaxWidthExp, heights 2^0 .. 2^MaxHeightExp
MaxWidthExp == 1
MaxHeightExp == 1
\* center components range over -MaxCenter .. MaxCenter
MaxCenter == 1
\* range is (2 * width * k, 2 * height * k) with k in 1 .. MaxRangeMul
MaxRangeMul == 1

PreviewInputs ==
    {params \in
        UNION {UNION {
            [center : {<< <<a, 1>>, <<b, 1>> >> :
                           a \in (-MaxCenter) .. MaxCenter, b \in (-MaxCenter) .. MaxCenter},
             range : {<< <<2 * (2 ^ we) * k, 1>>, <<2 * (2 ^ he) * k, 1>> >> :
                           k \in 1 .. MaxRangeMul},
             screen_dims : {<<2 ^ we, 2 ^ he>>}]
            : he \in 0 .. MaxHeightExp} : we \in 0 .. MaxWidthExp} :
        ExactParams(params)}

InitPreview ==
    /\ EngineParked
    /\ pixel = PixelIdle
    /\ \E params \in PreviewInputs : preview = PreviewStart(params)

\* the worker of row y stores its next pixel
RowWorker ==
    /\ preview.pc = "run"
    /\ \E y \in DOMAIN preview.next_x :
          /\ preview.next_x[y] < preview.params.screen_dims[1]
          /\ preview' = WritePixel(preview, preview.next_x[y], y)
    /\ UNCHANGED <<engine_vars, pixel>>

\* for_each returns when every row is done; pixels is returned
Join ==
    /\ preview.pc = "run"
    /\ \A y \in DOMAIN preview.next_x :
          preview.next_x[y] = preview.params.screen_dims[1]
    /\ preview' = [preview EXCEPT !.pc = "done"]
    /\ UNCHANGED <<engine_vars, pixel>>

NextPreview ==
    \/ RowWorker
    \/ Join

SpecPreview == InitPreview /\ [][NextPreview]_vars

(***************************************************************************)
(* Properties of the pixel loop (SpecPixel)                                *)
(***************************************************************************)
PixelDoneAt(c_real, c_imag) ==
    pixel.pc = "done" /\ pixel.c_real = c_real /\ pixel.c_imag = c_imag

\* C9 as stated: for c = 2 + 0i the loop stops with iterations = 1 and the
\* hue is (1/300) * 360.
C9_EscapesAfterOneIteration ==
    PixelDoneAt(2, 0) =>
        /\ pixel.iterations = 1
        /\ pixel.hue[1] * PREVIEW_ITERATIONS = 1 * 360 * pixel.hue[2]

\* C9 amended: for c = 2 + 0i the first iteration gives z = 2 with
\* |z|^2 = 4, which is not > 4, so the loop runs a second time (z = 6) and
\* stops with iterations = 2; the hue is (2/300) * 360, escaped branch.
C9_EscapesAfterTwoIterations ==
    /\ (pixel.pc = "loop" /\ pixel.c_real = 2 /\ pixel.c_imag = 0
            /\ pixel.iterations = 1) =>
          /\ pixel.z_real = 2 /\ pixel.z_imag = 0
          /\ LoopCond(pixel.z_real, pixel.z_imag, pixel.iterations)
    /\ PixelDoneAt(2, 0) =>
          /\ pixel.iterations = 2
          /\ pixel.z_real = 6 /\ pixel.z_imag = 0
          /\ pixel.branch = "escaped"
          /\ pixel.hue[1] * PREVIEW_ITERATIONS = 2 * 360 * pixel.hue[2]

C9_Witness ==
    /\ PixelDoneAt(2, 0)
    /\ pixel.iterations = 2
    /\ pixel.branch = "escaped"

\* C10: for c = 0 and c = -1 the orbit never leaves |z|^2 <= 4 (c = -1:
\* 0, -1, 0, -1, ...), the loop ends with iterations = PREVIEW_ITERATIONS
\* = 300 and the colour is chosen by the in-set branch.
C10_BoundedPointsReachCap ==
    (pixel.pc # "idle" /\ pixel.c_imag = 0 /\ pixel.c_real \in {0, -1}) =>
        /\ pixel.z_real * pixel.z_real + pixel.z_imag * pixel.z_imag <= 4
        /\ pixel.z_imag = 0
        /\ pixel.z_real \in {0, pixel.c_real}
        /\ pixel.iterations <= PREVIEW_ITERATIONS
        /\ pixel.pc \in {"color", "done"} => pixel.iterations = 300
        /\ pixel.pc = "done" =>
              /\ pixel.branch = "in_set"
              /\ pixel.hue = <<(Atan2Quarters(pixel.z_imag, pixel.z_real) + 4) * 360, 8>>

C10_Witness ==
    /\ PixelDoneAt(-1, 0)
    /\ pixel.iterations = 300
    /\ pixel.branch = "in_set"

NormSqr(l) == l.z_real * l.z_real + l.z_imag * l.z_imag

\* C11: the count the loop ends with is the direct computation of
\* z_0 = 0, z_{n+1} = z_n^2 + c: at count n the loop holds z_n, it goes on
\* only while no z_m so far has |z_m|^2 > 4, and it ends at the least
\* n >= 1 with |z_n|^2 > 4 or at the cap 300; for c = 1 + 1i
\* (z_1 = 1 + 1i, z_2 = 1 + 3i) the count is 2.
C11_CountIsDirectRecurrence ==
    /\ [](pixel.iterations = 0 => (pixel.z_real = 0 /\ pixel.z_imag = 0))
    /\ [][pixel'.iterations # pixel.iterations =>
            /\ pixel'.iterations = pixel.iterations + 1
            /\ NormSqr(pixel) <= 4
            /\ pixel.iterations < 300
            /\ pixel'.z_real = pixel.z_real * pixel.z_real
                                 - pixel.z_imag * pixel.z_imag + pixel.c_real
            /\ pixel'.z_imag = 2 * pixel.z_real * pixel.z_imag + pixel.c_imag
            /\ pixel'.c_real = pixel.c_real
            /\ pixel'.c_imag = pixel.c_imag]_vars
    /\ [](pixel.pc \in {"color", "done"} =>
            /\ pixel.iterations \in 1 .. 300
            /\ NormSqr(pixel) > 4 \/ pixel.iterations = 300)
    /\ [][pixel.pc \in {"color", "done"} =>
            /\ pixel'.iterations = pixel.iterations
            /\ pixel'.z_real = pixel.z_real
            /\ pixel'.z_imag = pixel.z_imag]_vars
    /\ []((pixel.c_real = 1 /\ pixel.c_imag = 1) =>
            /\ pixel.iterations = 1 => (pixel.z_real = 1 /\ pixel.z_imag = 1)
            /\ pixel.pc \in {"color", "done"} =>
                  (pixel.iterations = 2 /\ pixel.z_real = 1 /\ pixel.z_imag = 3))

C11_Witness ==
    /\ PixelDoneAt(1, 1)
    /\ pixel.iterations = 2
    /\ NormSqr(pixel) = 10

(***************************************************************************)
(* SpecHsv: hsv_to_rgb_u8 applied to hues in steps of 30 degrees,          *)
(* saturations in halves and values in quarters (all exact in f32)         *)
(***************************************************************************)
\* hues are 0, 30, ..., 30 * MaxHueStep degrees
MaxHueStep == 12

HsvInputs ==
    [h : {<<30 * k, 1>> : k \in 0 .. MaxHueStep},
     s : {<<j, 2>> : j \in 0 .. 2},
     v : {<<j, 4>> : j \in 0 .. 4}]

InitHsv ==
    /\ EngineParked
    /\ preview = PreviewIdle
    /\ \E in \in HsvInputs :
          pixel = [pc |-> "hsv_call", h |-> in.h, s |-> in.s, v |-> in.v,
                   rgb |-> <<0, 0, 0>>]

HsvReturn ==
    /\ pixel.pc = "hsv_call"
    /\ pixel' = [pixel EXCEPT !.pc = "hsv_return",
                              !.rgb = hsv_to_rgb_u8(pixel.h, pixel.s, pixel.v)]
    /\ UNCHANGED <<engine_vars, preview>>

NextHsv == HsvReturn

SpecHsv == InitHsv /\ [][NextHsv]_vars

\* the call returned for hue = degrees, s = 1, v = 1
HsvFullAt(degrees) ==
    /\ pixel.pc = "hsv_return"
    /\ pixel.h[1] = degrees * pixel.h[2]
    /\ pixel.s[1] = pixel.s[2]
    /\ pixel.v[1] = pixel.v[2]

\* C12: hsv_to_rgb_u8 gives (255,0,0) for hue 0, (0,255,0) for hue 120 and
\* (0,0,255) for hue 240 at s = v = 1, and (v*255, v*255, v*255) (as u8)
\* for s = 0 and any hue.
C12_HsvGoldenValues ==
    /\ HsvFullAt(0) => pixel.rgb = <<255, 0, 0>>
    /\ HsvFullAt(120) => pixel.rgb = <<0, 255, 0>>
    /\ HsvFullAt(240) => pixel.rgb = <<0, 0, 255>>
    /\ (pixel.pc = "hsv_return" /\ pixel.s[1] = 0) =>
          LET val == (pixel.v[1] * 255) \div pixel.v[2]
          IN pixel.rgb = <<val, val, val>>

C12_Witness ==
    /\ HsvFullAt(120)
    /\ pixel.rgb = <<0, 255, 0>>

\* the hue of a pixel whose loop ended at the cap with z on the negative real
\* axis (z_imag = +0.0, z_real < 0): angle = PI, hue_norm = 1.0, hue = 360.0
HueAtAnglePi ==
    PixelHue([iterations |-> PREVIEW_ITERATIONS, z_real |-> -1, z_imag |-> 0])

\* C21 as stated: the sector is floor(hue/60) mod 6 for every hue the preview
\* produces, so that a hue is converted like the same hue reduced mod 360;
\* hue 360 (angle = pi) gives the colour of hue 0.
C21_SectorIsFloorMod6 ==
    (pixel.pc = "hsv_return" /\ pixel.s[1] # 0) =>
        /\ pixel.rgb =
              hsv_to_rgb_u8(<<pixel.h[1] % (360 * pixel.h[2]), pixel.h[2]>>,
                            pixel.s, pixel.v)
        /\ (pixel.h[1] * HueAtAnglePi[2] = HueAtAnglePi[1] * pixel.h[2]) =>
              pixel.rgb = hsv_to_rgb_u8(<<0, 1>>, pixel.s, pixel.v)

(***************************************************************************)
(* Properties of the parallel preview (SpecPreview)                        *)
(***************************************************************************)
\* the buffer a sequential row-major evaluation produces
ExpectedPixels(params) ==
    [k \in 1 .. PreviewLen(params) |->
        PixelBytes(params,
                   ((k - 1) \div 4) % params.screen_dims[1],
                   (k - 1) \div (4 * params.screen_dims[1]))[((k - 1) % 4) + 1]]

\* C8: every worker writes only bytes of its own row, no byte is written
\* twice, and whatever the interleaving the returned buffer is the same.
C8_RowsDisjointAndDeterministic ==
    preview.pc \in {"run", "done"} =>
        /\ \A k \in DOMAIN preview.writes :
              /\ Cardinality(preview.writes[k]) <= 1
              /\ \A w \in preview.writes[k] :
                    /\ w[1] = (k - 1) \div (4 * preview.params.screen_dims[1])
                    /\ w[2] = ((k - 1) \div 4) % preview.params.screen_dims[1]
        /\ Len(preview.pixels) = PreviewLen(preview.params)
        /\ preview.pc = "done" =>
              /\ preview.pixels = ExpectedPixels(preview.params)
              /\ \A k \in DOMAIN preview.writes : preview.writes[k] # {}

C8_Witness ==
    /\ preview.pc = "done"
    /\ preview.params.screen_dims = <<2, 2>>
    /\ preview.pixels = ExpectedPixels(preview.params)
    /\ preview.pixels[1] # preview.pixels[9]

====
